---- MODULE Spec2Model ----
(***************************************************************************)
(* Host-authoritative session engine of One Night Ultimate Werewolf        *)
(* (src/App.tsx, first listing, lines 1-939; src/constants.tsx;            *)
(* src/components/game/NightPhase.tsx).                                    *)
(*                                                                         *)
(* The model is the host's React state: gameState (one record, as in       *)
(* types.ts), the host's localPlayer, and the callbacks that are pending   *)
(* on the host: the continuation of startGame after its await, and the     *)
(* NIGHT_INTRO setTimeout closures, each with the gameState it captured.   *)
(* Guests appear as the messages the host's 'data' handler receives.       *)
(* roleTimer is the countdown NightPhase keeps on the host while the phase  *)
(* is NIGHT_ACTIVE (0 while NightPhase is not mounted); hasActed is the     *)
(* mark NightPhase keeps on the host's device once its participant has     *)
(* confirmed the turn.                                                     *)
(* connectionsRef is the host's list of data connections, conn the         *)
(* connections themselves with the messages in flight each way, and guest  *)
(* the React state (gameState replica and localPlayer) of the devices      *)
(* whose connection is modelled.                                           *)
(* The display name of a player is left out: no handler reads it.          *)
(***************************************************************************)
EXTENDS Integers, Sequences, FiniteSets, TLC

VARIABLES gameState, localPlayer, dealPending, introTimeouts, msgCount, roleTimer,
          hasActed, connectionsRef, conn, guest

vars ==
  <<gameState, localPlayer, dealPending, introTimeouts, msgCount, roleTimer, hasActed,
    connectionsRef, conn, guest>>

(***************************************************************************)
(* Bounds of the model.                                                    *)
(***************************************************************************)
\* number of guest devices that may connect
MaxGuests == 2
\* number of messages the host's data handler processes in one behaviour
MaxMsgs == 3
\* the same, in a behaviour whose guests all run the application
MaxGuestMsgs == 5
\* largest target player count the host may pick when creating the room
MaxTarget == 3
\* participants of a table whose votes are resolved
VotePlayers == 3
\* messages in flight one way on one connection
MaxInFlight == 1

(***************************************************************************)
(* types.ts                                                                *)
(***************************************************************************)
LOBBY == "LOBBY"
ROLE_REVEAL == "ROLE_REVEAL"
NIGHT_INTRO == "NIGHT_INTRO"
NIGHT_ACTIVE == "NIGHT_ACTIVE"
DAY_DISCUSSION == "DAY_DISCUSSION"
DAY_VOTING == "DAY_VOTING"
DAY_RESULTS == "DAY_RESULTS"
GAME_REVIEW == "GAME_REVIEW"
GAME_OVER == "GAME_OVER"

GamePhase == <<LOBBY, ROLE_REVEAL, NIGHT_INTRO, NIGHT_ACTIVE, DAY_DISCUSSION,
               DAY_VOTING, DAY_RESULTS, GAME_REVIEW, GAME_OVER>>

RoleType == <<"WEREWOLF", "MINION", "MASON", "SEER", "ROBBER", "TROUBLEMAKER",
              "DRUNK", "INSOMNIAC", "VILLAGER", "TANNER", "HUNTER">>

\* seatNumber: number | null -- null is modelled by 0 (the code's own
\* `seatNumber || 99` treats the two alike)
NoSeat == 0
\* role: RoleType | null
NoRole == "null"
\* speakerId?: string
Absent == "undefined"
\* gameResult?: GameResult and localPlayer: Player | null are <<>> when
\* missing and <<value>> when set
None == <<>>
Some(v) == <<v>>

Range(s) == {s[i] : i \in DOMAIN s}

(***************************************************************************)
(* constants.tsx                                                           *)
(***************************************************************************)
\* ROLES[r].nightOrder
nightOrder ==
  [r \in Range(RoleType) |->
     CASE r = "WEREWOLF" -> 2
       [] r = "MINION" -> 3
       [] r = "MASON" -> 4
       [] r = "SEER" -> 5
       [] r = "ROBBER" -> 6
       [] r = "TROUBLEMAKER" -> 7
       [] r = "DRUNK" -> 8
       [] r = "INSOMNIAC" -> 9
       [] OTHER -> -1]

\* ROLES[r].team
team ==
  [r \in Range(RoleType) |->
     CASE r \in {"WEREWOLF", "MINION"} -> "WEREWOLF"
       [] r = "TANNER" -> "TANNER"
       [] OTHER -> "VILLAGER"]

\* Array.prototype.filter
RECURSIVE FilterSeq(_, _)
FilterSeq(s, keep) ==
  IF s = <<>> THEN <<>>
  ELSE (IF Head(s) \in keep THEN <<Head(s)>> ELSE <<>>) \o FilterSeq(Tail(s), keep)

\* one step of a stable insertion: x goes after every element whose key is
\* not larger than its own
RECURSIVE InsertByKey(_, _, _)
InsertByKey(sorted, x, key) ==
  IF sorted = <<>> THEN <<x>>
  ELSE IF key[Head(sorted)] <= key[x]
       THEN <<Head(sorted)>> \o InsertByKey(Tail(sorted), x, key)
       ELSE <<x>> \o sorted

\* Array.prototype.sort((a, b) => key(a) - key(b)), which is stable
RECURSIVE SortByKey(_, _)
SortByKey(s, key) ==
  IF s = <<>> THEN <<>>
  ELSE InsertByKey(SortByKey(SubSeq(s, 1, Len(s) - 1), key), s[Len(s)], key)

NIGHT_SEQUENCE ==
  SortByKey(FilterSeq(RoleType, {r \in Range(RoleType) : nightOrder[r] > 0}),
            nightOrder)

DEFAULT_PLAYER_COUNT == 4
MAX_PLAYER_COUNT == 10
MIN_PLAYER_COUNT == 3

(***************************************************************************)
(* App.tsx: state                                                          *)
(***************************************************************************)
\* generateId(): the ids are opaque strings, one per device
HostId == "h"
GuestNames == <<"g1", "g2", "g3", "g4">>
GuestIds == {GuestNames[i] : i \in 1..MaxGuests}
AllIds == {HostId} \cup GuestIds
\* one more peer, which connects to the room without going through joinRoom
StrangerId == "x"
\* the guest device whose connection and screen are modelled, named by the
\* id it generates; the other guests are those of GuestIds
NetIds == {"n1"}

getInitialState ==
  [roomCode |-> "",
   players |-> <<>>,
   centerCards |-> <<>>,
   currentPhase |-> LOBBY,
   currentNightRoleIndex |-> 0,
   timer |-> 0,
   votes |-> <<>>,
   settings |-> [playerCount |-> DEFAULT_PLAYER_COUNT, useDoppelganger |-> FALSE],
   speakerId |-> Absent,
   gameResult |-> None,
   log |-> <<>>]

\* projectedDeck (useMemo over settings.playerCount)
balanceOrder ==
  <<"WEREWOLF", "WEREWOLF", "SEER", "ROBBER", "TROUBLEMAKER", "VILLAGER",
    "TANNER", "INSOMNIAC", "MASON", "MASON", "MINION", "DRUNK", "HUNTER">>

Max(a, b) == IF a >= b THEN a ELSE b
Min(a, b) == IF a <= b THEN a ELSE b

\* Array.prototype.slice(from, to) with 0-based, end-exclusive indices
Slice(s, from, to) == SubSeq(s, from + 1, Min(to, Len(s)))

\* the deck cut at the player count, without the three center cards
projectedDeck_noCenter(gs) ==
  Slice(balanceOrder, 0, Max(gs.settings.playerCount, MIN_PLAYER_COUNT))

projectedDeck(gs) ==
  Slice(balanceOrder, 0, Max(gs.settings.playerCount, MIN_PLAYER_COUNT) + 3)

(***************************************************************************)
(* App.tsx: handleHostMessage, one operator per case of the switch          *)
(***************************************************************************)
\* players.find / findIndex by id: 0 when there is none
IndexOfId(players, id) ==
  IF \E i \in DOMAIN players : players[i].id = id
  THEN CHOOSE i \in DOMAIN players :
         /\ players[i].id = id
         /\ \A j \in DOMAIN players : players[j].id = id => i <= j
  ELSE 0

\* the record appended without the `exists` test
HandleHello_alwaysAppend(gs, player) ==
  [gs EXCEPT !.players = Append(@, player)]

HandleHello(gs, player) ==
  IF IndexOfId(gs.players, player.id) = 0
  THEN [gs EXCEPT !.players = Append(@, player)]
  ELSE gs

\* the claim stored without the isTaken test
HandleClaimSeat_noTakenTest(gs, playerId, seatNumber) ==
  LET pIdx == IndexOfId(gs.players, playerId)
  IN IF pIdx > 0
     THEN [gs EXCEPT !.players[pIdx].seatNumber = seatNumber]
     ELSE gs

HandleClaimSeat(gs, playerId, seatNumber) ==
  LET pIdx == IndexOfId(gs.players, playerId)
      isTaken == \E i \in DOMAIN gs.players : gs.players[i].seatNumber = seatNumber
  IN IF pIdx > 0 /\ ~isTaken
     THEN [gs EXCEPT !.players[pIdx].seatNumber = seatNumber]
     ELSE gs

\* { ...votes, [voterId]: targetId }
Upsert(votes, voterId, targetId) ==
  [v \in DOMAIN votes \cup {voterId} |-> IF v = voterId THEN targetId ELSE votes[v]]

\* the vote stored only when the voter has none yet
HandleVote_keepFirst(gs, voterId, targetId) ==
  IF voterId \in DOMAIN gs.votes THEN gs
  ELSE [gs EXCEPT !.votes = Upsert(@, voterId, targetId)]

HandleVote(gs, voterId, targetId) ==
  [gs EXCEPT !.votes = Upsert(@, voterId, targetId)]

HandlePhaseChange(gs, phase, speakerId) ==
  [gs EXCEPT !.currentPhase = phase,
             !.speakerId = IF speakerId # Absent THEN speakerId ELSE @]

handleHostMessage(gs, data) ==
  CASE data.type = "HELLO" -> HandleHello(gs, data.player)
    [] data.type = "ACTION_CLAIM_SEAT" -> HandleClaimSeat(gs, data.playerId, data.seatNumber)
    [] data.type = "ACTION_VOTE" -> HandleVote(gs, data.voterId, data.targetId)
    [] data.type = "ACTION_PHASE_CHANGE" -> HandlePhaseChange(gs, data.phase, data.speakerId)
    [] OTHER -> gs

\* what the HELLO branch sends on the connection the message came from
\* (App.tsx 178-181): the SYNC_STATE carrying newState when the connection
\* is open, nothing otherwise
helloSync(gs, data, connOpen) ==
  IF data.type = "HELLO" /\ connOpen
  THEN Some([type |-> "SYNC_STATE", state |-> handleHostMessage(gs, data)])
  ELSE None

\* the shouldBroadcast flag of handleHostMessage: whether the handler calls
\* broadcastState(newState) (App.tsx 207-209)
shouldBroadcast(gs, data) ==
  CASE data.type = "HELLO" -> TRUE
    [] data.type = "ACTION_CLAIM_SEAT" ->
         /\ IndexOfId(gs.players, data.playerId) > 0
         /\ \A i \in DOMAIN gs.players : gs.players[i].seatNumber # data.seatNumber
    [] data.type = "ACTION_VOTE" -> TRUE
    [] data.type = "ACTION_PHASE_CHANGE" -> TRUE
    [] OTHER -> FALSE

(***************************************************************************)
(* App.tsx: startGame                                                      *)
(***************************************************************************)
\* (a.seatNumber || 99) - (b.seatNumber || 99)
SeatKey(players) ==
  [p \in Range(players) |-> IF p.seatNumber = NoSeat THEN 99 ELSE p.seatNumber]

\* [...projectedDeck].sort(() => 0.5 - Math.random()): the random order is
\* an input of the deal; the model draws it from the cuts of the deck (the
\* deck rotated by k cards), which put zero, one and two Werewolves in hand
Shuffles(deck) ==
  {[i \in DOMAIN deck |-> deck[((i - 1 + k) % Len(deck)) + 1]] : k \in 0..(Len(deck) - 1)}

\* shuffled[idx] is undefined past the end of the deck; the model reads
\* that as no role
Deal(gs, shuffled) ==
  LET sortedPlayers == SortByKey(gs.players, SeatKey(gs.players))
      updatedPlayers ==
        [idx \in DOMAIN sortedPlayers |->
           LET card == IF idx <= Len(shuffled) THEN shuffled[idx] ELSE NoRole
           IN [sortedPlayers[idx] EXCEPT !.role = card, !.initialRole = card]]
  IN [gs EXCEPT !.players = updatedPlayers,
                !.centerCards = Slice(shuffled, Len(updatedPlayers), Len(shuffled)),
                !.currentPhase = ROLE_REVEAL,
                !.timer = 5,
                !.votes = <<>>,
                !.gameResult = None]

(***************************************************************************)
(* App.tsx: processVotingResults                                           *)
(***************************************************************************)
voteCounts(votes) ==
  [t \in Range(votes) |-> Cardinality({v \in DOMAIN votes : votes[v] = t})]

maxVotes(votes) ==
  LET c == voteCounts(votes)
  IN IF DOMAIN c = {} THEN 0
     ELSE CHOOSE m \in Range(c) : \A n \in Range(c) : n <= m

\* the tally with a tie-break: one of the tied targets only
deadPlayerIdsOf_tieBreak(votes) ==
  IF maxVotes(votes) > 0
  THEN {CHOOSE pid \in DOMAIN voteCounts(votes) :
          voteCounts(votes)[pid] = maxVotes(votes)}
  ELSE {}

deadPlayerIdsOf(votes) ==
  IF maxVotes(votes) > 0
  THEN {pid \in DOMAIN voteCounts(votes) : voteCounts(votes)[pid] = maxVotes(votes)}
  ELSE {}

\* the winner determination with the Werewolf test ahead of the Tanner test
winnersOf_wolfFirst(gs) ==
  LET dead == deadPlayerIdsOf(gs.votes)
      deadPlayers == {i \in DOMAIN gs.players : gs.players[i].id \in dead}
      hasTannerDied == \E i \in deadPlayers : gs.players[i].role = "TANNER"
      hasWerewolfDied == \E i \in deadPlayers : gs.players[i].role = "WEREWOLF"
      wolfCount == Cardinality({i \in DOMAIN gs.players : gs.players[i].role = "WEREWOLF"})
  IN IF hasWerewolfDied THEN <<"VILLAGER">>
     ELSE IF hasTannerDied THEN <<"TANNER">>
     ELSE IF wolfCount = 0 /\ deadPlayers = {} THEN <<"VILLAGER">>
     ELSE <<"WEREWOLF">>

winnersOf(gs) ==
  LET dead == deadPlayerIdsOf(gs.votes)
      deadPlayers == {i \in DOMAIN gs.players : gs.players[i].id \in dead}
      hasTannerDied == \E i \in deadPlayers : gs.players[i].role = "TANNER"
      hasWerewolfDied == \E i \in deadPlayers : gs.players[i].role = "WEREWOLF"
      wolfCount == Cardinality({i \in DOMAIN gs.players : gs.players[i].role = "WEREWOLF"})
  IN IF hasTannerDied THEN <<"TANNER">>
     ELSE IF hasWerewolfDied THEN <<"VILLAGER">>
     ELSE IF wolfCount = 0 /\ deadPlayers = {} THEN <<"VILLAGER">>
     ELSE IF wolfCount = 0 /\ deadPlayers # {} THEN <<"WEREWOLF">>
     ELSE <<"WEREWOLF">>

processVotingResults(gs) ==
  [gs EXCEPT !.currentPhase = DAY_RESULTS,
             !.gameResult = Some([winners |-> winnersOf(gs),
                                  deadPlayerIds |-> deadPlayerIdsOf(gs.votes)])]

(***************************************************************************)
(* App.tsx: advanceNightPhase                                              *)
(***************************************************************************)
\* randomIdx is the 1-based position Math.floor(Math.random() * length) + 1
advanceNightPhase(gs, randomIdx) ==
  LET nextIndex == gs.currentNightRoleIndex + 1
  IN IF nextIndex >= Len(NIGHT_SEQUENCE)
     THEN [gs EXCEPT !.currentPhase = DAY_DISCUSSION,
                     !.timer = 0,
                     !.speakerId = gs.players[randomIdx].id]
     ELSE [gs EXCEPT !.currentNightRoleIndex = nextIndex]

\* handleNightAction (App.tsx 498-500), the onAction of NightPhase: its body
\* is a comment.  It is the same function on a guest's device, so a guest's
\* night action sends the host nothing.
handleNightAction(gs, actionType, targetIds) == gs

\* the host flag of localPlayer, as in `localPlayer?.isHost`
IsHost == localPlayer # None /\ localPlayer[1].isHost

(***************************************************************************)
(* The data connections (PeerJS) and the state of a guest device           *)
(***************************************************************************)
\* a connection that is not open: nothing is in flight on it
NoConn == [open |-> FALSE, toHost |-> <<>>, toGuest |-> <<>>]

\* App's state on a device before joinRoom (App.tsx 41-42)
NoGuest == [gameState |-> getInitialState, localPlayer |-> None]

SyncState(state) == [type |-> "SYNC_STATE", state |-> state]

Init ==
  /\ gameState = getInitialState
  /\ localPlayer = None
  /\ dealPending = {}
  /\ introTimeouts = {}
  /\ msgCount = 0
  /\ roleTimer = 0
  /\ hasActed = FALSE
  /\ connectionsRef = {}
  /\ conn = [d \in NetIds |-> NoConn]
  /\ guest = [d \in NetIds |-> NoGuest]

(***************************************************************************)
(* NightPhase.tsx: the role timer effect                                   *)
(***************************************************************************)
\* the value the effect gives the countdown (NightPhase.tsx 110-111).  The
\* effect depends on onGodSpeechComplete, which is a new function at every
\* render of App, so it runs again, and restarts the countdown, after
\* every update of App's state.  NightPhase is mounted in NIGHT_ACTIVE.
initialTime(gs) ==
  IF gs.currentPhase # NIGHT_ACTIVE THEN 0
  ELSE IF gs.currentNightRoleIndex + 1 \in DOMAIN NIGHT_SEQUENCE
          /\ NIGHT_SEQUENCE[gs.currentNightRoleIndex + 1] \in {"WEREWOLF", "SEER"}
       THEN 25
       ELSE 15

(***************************************************************************)
(* NightPhase (src/unnamed/part_006): hasActed and confirmTurn             *)
(***************************************************************************)
\* hasActed after a render with newState: useState(false) when NightPhase
\* is mounted, and the effect on [currentNightRoleIndex] (part_006 135-142)
\* sets it back to false when the index has changed
stillActed(newState) ==
  /\ hasActed
  /\ gameState.currentPhase = NIGHT_ACTIVE
  /\ newState.currentPhase = NIGHT_ACTIVE
  /\ newState.currentNightRoleIndex = gameState.currentNightRoleIndex

\* a mark that flips at every call
confirmTurn_toggle(gs, acted) ==
  [gameState |-> handleNightAction(gs, "CONFIRM_TURN", <<>>), hasActed |-> ~acted]

\* confirmTurn (part_006 144-147): setHasActed(true); onAction('CONFIRM_TURN', [])
confirmTurn(gs, acted) ==
  [gameState |-> handleNightAction(gs, "CONFIRM_TURN", <<>>), hasActed |-> TRUE]

(***************************************************************************)
(* Effects                                                                 *)
(***************************************************************************)
\* setGameState(newState) on the host, followed by the render: the effect
\* with dependencies [currentPhase, isHost] (App.tsx 458-468) runs when the
\* phase has become NIGHT_INTRO and arms a setTimeout whose closure holds
\* the gameState of that render.  The timeout is never cleared.
CommitWith(newState, timeouts) ==
  /\ gameState' = newState
  /\ introTimeouts' =
       IF newState.currentPhase = NIGHT_INTRO /\ gameState.currentPhase # NIGHT_INTRO
       THEN timeouts \cup {newState}
       ELSE timeouts
  /\ roleTimer' = initialTime(newState)
  /\ hasActed' = stillActed(newState)

\* broadcastState that sends nothing
broadcastState_none(conns, newState) == conns

\* broadcastState (App.tsx 63-69): a SYNC_STATE with newState on every
\* connection of connectionsRef that is open
broadcastState(conns, newState) ==
  [d \in DOMAIN conns |->
     IF d \in connectionsRef /\ conns[d].open
     THEN [conns[d] EXCEPT !.toGuest = Append(@, SyncState(newState))]
     ELSE conns[d]]

\* no connection holds MaxInFlight undelivered messages for its guest
WireRoom == \A d \in NetIds : Len(conn[d].toGuest) < MaxInFlight

\* setGameState(newState); broadcastState(newState), as startGame (353-354),
\* processVotingResults (429-430), advanceNightPhase (493) and the host's
\* own handleHostMessage calls do; the pending closures are left as they are
Commit(newState) ==
  /\ WireRoom
  /\ CommitWith(newState, introTimeouts)
  /\ conn' = broadcastState(conn, newState)
  /\ UNCHANGED <<connectionsRef, guest>>

(***************************************************************************)
(* Host: createRoom, peer.on('open')                                       *)
(***************************************************************************)
TargetCounts == MIN_PLAYER_COUNT..MaxTarget

CreateRoom ==
  /\ localPlayer = None
  /\ \E targetPlayerCount \in TargetCounts :
       LET newPlayer == [id |-> HostId, seatNumber |-> 1, role |-> NoRole,
                         initialRole |-> NoRole, isHost |-> TRUE]
       IN /\ localPlayer' = Some(newPlayer)
          /\ gameState' = [getInitialState EXCEPT
                             !.roomCode = "code",
                             !.players = <<newPlayer>>,
                             !.settings.playerCount = targetPlayerCount]
  /\ UNCHANGED <<dealPending, introTimeouts, msgCount, roleTimer, hasActed,
                 connectionsRef, conn, guest>>

(***************************************************************************)
(* Messages arriving on a guest connection: conn.on('data')                *)
(***************************************************************************)
\* the record joinRoom sends (App.tsx 243)
JoinPlayer(id) ==
  [id |-> id, seatNumber |-> NoSeat, role |-> NoRole, initialRole |-> NoRole,
   isHost |-> FALSE]

\* a record with the other fields filled in: the handler stores whatever
\* record the message carries
FilledPlayer(id) ==
  [id |-> id, seatNumber |-> 1, role |-> "WEREWOLF", initialRole |-> "WEREWOLF",
   isHost |-> TRUE]

\* player records a HELLO may carry: the guests send what joinRoom builds,
\* the further peer a record of its own making
HelloPlayers == {JoinPlayer(id) : id \in GuestIds} \cup {FilledPlayer(StrangerId)}

\* seat numbers a claim may carry: the seats of the chart and one past them
ClaimSeats == 1..(MaxTarget + 1)

\* `newState.players[pIdx].seatNumber = data.seatNumber` (App.tsx 189)
\* writes into the Player object itself.  {...prev} copies neither the
\* players array nor its objects, so the object is also the one held by the
\* gameState of every closure that has not been through startGame's map
\* since, and by localPlayer.  The model knows an object by its value:
\* seatWritten is the object as it was before the write.
seatWritten(gs, data) ==
  IF data.type = "ACTION_CLAIM_SEAT" /\ shouldBroadcast(gs, data)
  THEN Some(gs.players[IndexOfId(gs.players, data.playerId)])
  ELSE None

\* a Player object after the handler has run
playerShared(gs, data, player) ==
  IF seatWritten(gs, data) = Some(player)
  THEN [player EXCEPT !.seatNumber = data.seatNumber]
  ELSE player

\* a captured gameState after the handler has run
seatShared(gs, data, snap) ==
  [snap EXCEPT !.players =
     [k \in DOMAIN snap.players |-> playerShared(gs, data, snap.players[k])]]

\* handleHostMessage(data, conn) for a message of a guest connection.
\* msgCount counts the messages that changed gameState, limit of them at
\* most; a message that leaves gameState as it is (a repeated HELLO or
\* vote) may arrive any number of times.  The handler returns a new object
\* in either case, so App renders again.
\* conns holds the connections after what the HELLO branch has sent.
HostMessage(data, conns) ==
  LET newState == handleHostMessage(gameState, data)
  IN /\ shouldBroadcast(gameState, data) => WireRoom
     /\ CommitWith(newState, {seatShared(gameState, data, snap) : snap \in introTimeouts})
     /\ dealPending' = {seatShared(gameState, data, snap) : snap \in dealPending}
     /\ localPlayer' = IF localPlayer = None THEN None
                       ELSE Some(playerShared(gameState, data, localPlayer[1]))
     /\ conn' = IF shouldBroadcast(gameState, data)
                THEN broadcastState(conns, newState)
                ELSE conns
     /\ UNCHANGED <<connectionsRef, guest>>

\* a message of a connection that is not modelled
Received(data, limit) ==
  LET newState == handleHostMessage(gameState, data)
  IN /\ newState # gameState => msgCount < limit
     /\ msgCount' = IF newState # gameState THEN msgCount + 1 ELSE msgCount
     /\ HostMessage(data, conn)

RecvHello ==
  /\ localPlayer # None
  /\ \E player \in HelloPlayers :
       Received([type |-> "HELLO", player |-> player], MaxMsgs)

RecvClaimSeat ==
  /\ localPlayer # None
  /\ \E playerId \in AllIds, seatNumber \in ClaimSeats :
       Received([type |-> "ACTION_CLAIM_SEAT", playerId |-> playerId,
                 seatNumber |-> seatNumber], MaxMsgs)

RecvVote ==
  /\ localPlayer # None
  /\ \E voterId \in AllIds, targetId \in AllIds :
       Received([type |-> "ACTION_VOTE", voterId |-> voterId,
                 targetId |-> targetId], MaxMsgs)

RecvPhaseChange ==
  /\ localPlayer # None
  /\ \E phase \in Range(GamePhase), speakerId \in {Absent, GuestNames[1]} :
       Received([type |-> "ACTION_PHASE_CHANGE", phase |-> phase,
                 speakerId |-> speakerId], MaxMsgs)

(***************************************************************************)
(* A guest device whose connection is modelled: joinRoom, the 'data'       *)
(* handlers at both ends, claimSeat, castVote, and the close of the        *)
(* connection.  The device's id (myIdRef) is its name d.                   *)
(***************************************************************************)
\* the setLocalPlayer updater of the SYNC_STATE handler (App.tsx 253-266):
\* meOnServer replaces the local player when it differs in role, seat or
\* initialRole; nothing happens when the list does not hold myId
syncLocal(prevLocal, state, myId) ==
  LET me == IndexOfId(state.players, myId)
  IN IF me = 0 THEN prevLocal
     ELSE IF \/ prevLocal = None
             \/ prevLocal[1].role # state.players[me].role
             \/ prevLocal[1].seatNumber # state.players[me].seatNumber
             \/ prevLocal[1].initialRole # state.players[me].initialRole
          THEN Some(state.players[me])
          ELSE prevLocal

\* a SYNC_STATE handler that keeps the participant list it has
onSyncState_keepPlayers(g, data, myId) ==
  [gameState |-> [data.state EXCEPT !.players =
                    IF g.gameState.players = <<>> THEN @ ELSE g.gameState.players],
   localPlayer |-> syncLocal(g.localPlayer, data.state, myId)]

\* conn.on('data') of joinRoom (App.tsx 249-271): `return data.state`
onSyncState(g, data, myId) ==
  [gameState |-> data.state,
   localPlayer |-> syncLocal(g.localPlayer, data.state, myId)]

\* sendToHost (App.tsx 72-76): nothing is sent on a connection that is not open
sendToHost(c, msg) ==
  IF c.open THEN [c EXCEPT !.toHost = Append(@, msg)] ELSE c

\* joinRoom up to conn.on('open') (App.tsx 236-247), and the host's
\* conn.on('open') (149-151): the guest takes its id, sets localPlayer and
\* sends HELLO; the host adds the connection to connectionsRef
JoinRoom ==
  \E d \in NetIds :
    /\ localPlayer # None
    /\ guest[d].localPlayer = None
    /\ ~conn[d].open
    /\ guest' = [guest EXCEPT ![d].localPlayer = Some(JoinPlayer(d))]
    /\ conn' = [conn EXCEPT ![d] =
                  [open |-> TRUE,
                   toHost |-> <<[type |-> "HELLO", player |-> JoinPlayer(d)]>>,
                   toGuest |-> <<>>]]
    /\ connectionsRef' = connectionsRef \cup {d}
    /\ UNCHANGED <<gameState, localPlayer, dealPending, introTimeouts, msgCount,
                   roleTimer, hasActed>>

\* conn.on('data') on the host (App.tsx 146-148): handleHostMessage(data,
\* conn) for the oldest message in flight; the HELLO branch answers on conn
\* before the broadcast
HostReceive ==
  \E d \in NetIds :
    /\ conn[d].open
    /\ conn[d].toHost # <<>>
    /\ LET data == Head(conn[d].toHost)
           taken == [conn EXCEPT ![d].toHost = Tail(@)]
           reply == helloSync(gameState, data, taken[d].open)
       IN HostMessage(data,
            IF reply = None THEN taken
            ELSE [taken EXCEPT ![d].toGuest = Append(@, reply[1])])
    /\ UNCHANGED msgCount

\* conn.on('data') on the guest for the oldest SYNC_STATE in flight
GuestReceive ==
  \E d \in NetIds :
    /\ conn[d].toGuest # <<>>
    /\ guest' = [guest EXCEPT ![d] = onSyncState(@, Head(conn[d].toGuest), d)]
    /\ conn' = [conn EXCEPT ![d].toGuest = Tail(@)]
    /\ UNCHANGED <<gameState, localPlayer, dealPending, introTimeouts, msgCount,
                   roleTimer, hasActed, connectionsRef>>

\* claimSeat on the guest (App.tsx 307-309) from renderSeatingChart, which
\* is drawn in LOBBY once the replica has a room code: canSit is a seat no
\* participant of the replica holds while localPlayer has none.  The seat
\* is written to localPlayer at once.
GuestClickSeat ==
  \E d \in NetIds :
    \E seat \in 1..guest[d].gameState.settings.playerCount :
      /\ guest[d].localPlayer # None
      /\ guest[d].gameState.currentPhase = LOBBY
      /\ guest[d].gameState.roomCode # ""
      /\ guest[d].localPlayer[1].seatNumber = NoSeat
      /\ \A i \in DOMAIN guest[d].gameState.players :
           guest[d].gameState.players[i].seatNumber # seat
      /\ Len(conn[d].toHost) < MaxInFlight
      /\ conn' = [conn EXCEPT ![d] =
                    sendToHost(@, [type |-> "ACTION_CLAIM_SEAT",
                                   playerId |-> guest[d].localPlayer[1].id,
                                   seatNumber |-> seat])]
      /\ guest' = [guest EXCEPT ![d].localPlayer = Some([@[1] EXCEPT !.seatNumber = seat])]
      /\ UNCHANGED <<gameState, localPlayer, dealPending, introTimeouts, msgCount,
                     roleTimer, hasActed, connectionsRef>>

\* castVote on the guest (App.tsx 318) from renderVotingPhase: any card of
\* the replica but the guest's own
GuestClickVote ==
  \E d \in NetIds :
    \E i \in DOMAIN guest[d].gameState.players :
      /\ guest[d].localPlayer # None
      /\ guest[d].gameState.currentPhase = DAY_VOTING
      /\ guest[d].gameState.players[i].id # guest[d].localPlayer[1].id
      /\ conn[d].open
      /\ Len(conn[d].toHost) < MaxInFlight
      /\ conn' = [conn EXCEPT ![d] =
                    sendToHost(@, [type |-> "ACTION_VOTE",
                                   voterId |-> guest[d].localPlayer[1].id,
                                   targetId |-> guest[d].gameState.players[i].id])]
      /\ UNCHANGED <<gameState, localPlayer, dealPending, introTimeouts, msgCount,
                     roleTimer, hasActed, connectionsRef, guest>>

\* the connection closes: conn.on('close') on the host (App.tsx 152-154)
\* takes it out of connectionsRef; what was in flight is lost
ConnClose ==
  \E d \in NetIds :
    /\ conn[d].open
    /\ conn' = [conn EXCEPT ![d] = NoConn]
    /\ connectionsRef' = connectionsRef \ {d}
    /\ UNCHANGED <<gameState, localPlayer, dealPending, introTimeouts, msgCount,
                   roleTimer, hasActed, guest>>

(***************************************************************************)
(* Messages of guests that run the application: what joinRoom, claimSeat   *)
(* and castVote send from the screens that offer them.  The guest's        *)
(* replica is taken to be the host's state.                                *)
(***************************************************************************)
\* joinRoom, conn.on('open'): a fresh id, so one HELLO per device
GuestJoin ==
  /\ localPlayer # None
  /\ \E id \in GuestIds :
       /\ IndexOfId(gameState.players, id) = 0
       /\ Received([type |-> "HELLO", player |-> JoinPlayer(id)], MaxGuestMsgs)

\* claimSeat from renderSeatingChart: a free seat of the chart, offered to
\* a guest that has none
GuestClaimSeat ==
  /\ gameState.currentPhase = LOBBY
  /\ \E i \in DOMAIN gameState.players, seat \in 1..gameState.settings.playerCount :
       /\ gameState.players[i].id \in GuestIds
       /\ gameState.players[i].seatNumber = NoSeat
       /\ \A j \in DOMAIN gameState.players : gameState.players[j].seatNumber # seat
       /\ Received([type |-> "ACTION_CLAIM_SEAT", playerId |-> gameState.players[i].id,
                    seatNumber |-> seat], MaxGuestMsgs)

\* castVote from renderVotingPhase: any card but the guest's own
GuestCastVote ==
  /\ gameState.currentPhase = DAY_VOTING
  /\ \E i, j \in DOMAIN gameState.players :
       /\ gameState.players[i].id \in GuestIds
       /\ i # j
       /\ Received([type |-> "ACTION_VOTE", voterId |-> gameState.players[i].id,
                    targetId |-> gameState.players[j].id], MaxGuestMsgs)

(***************************************************************************)
(* The host participant's own controls                                     *)
(***************************************************************************)
\* Begin button (App.tsx 672): enabled once players.length reaches
\* settings.playerCount; startGame runs up to its await with the gameState
\* of the render that drew the button.  The button is pressed once: no
\* second press while the first call is still at its await.
StartGameClick ==
  /\ IsHost
  /\ gameState.currentPhase = LOBBY
  /\ dealPending = {}
  /\ ~(Len(gameState.players) < gameState.settings.playerCount)
  /\ dealPending' = dealPending \cup {gameState}
  /\ UNCHANGED <<gameState, localPlayer, introTimeouts, msgCount, roleTimer, hasActed,
                 connectionsRef, conn, guest>>

\* startGame after `await soundService.init()`
StartGameDeal ==
  \E snap \in dealPending :
    \E shuffled \in Shuffles(projectedDeck(snap)) :
      LET newState == Deal(snap, shuffled)
          me == IndexOfId(newState.players, localPlayer[1].id)
      IN /\ Commit(newState)
         /\ localPlayer' = IF me > 0 THEN Some(newState.players[me]) ELSE localPlayer
         /\ dealPending' = dealPending \ {snap}
         /\ UNCHANGED msgCount

\* hostTriggerPhase(GamePhase.DAY_VOTING), the button of renderDiscussionPhase
HostStartVoting ==
  /\ IsHost
  /\ gameState.currentPhase = DAY_DISCUSSION
  /\ Commit(handleHostMessage(gameState,
       [type |-> "ACTION_PHASE_CHANGE", phase |-> DAY_VOTING, speakerId |-> Absent]))
  /\ UNCHANGED <<localPlayer, dealPending, msgCount>>

\* castVote from the host's own voting screen: any card but the host's own
HostCastVote ==
  /\ IsHost
  /\ gameState.currentPhase = DAY_VOTING
  /\ \E i \in DOMAIN gameState.players :
       /\ gameState.players[i].id # localPlayer[1].id
       /\ Commit(handleHostMessage(gameState,
            [type |-> "ACTION_VOTE", voterId |-> localPlayer[1].id,
             targetId |-> gameState.players[i].id]))
  /\ UNCHANGED <<localPlayer, dealPending, msgCount>>

\* hostTriggerPhase(GamePhase.DAY_RESULTS), the button of renderVotingPhase
HostRevealResults ==
  /\ IsHost
  /\ gameState.currentPhase = DAY_VOTING
  /\ Commit(processVotingResults(gameState))
  /\ UNCHANGED <<localPlayer, dealPending, msgCount>>

\* Skip button of NightPhase, drawn for the host while it is not its turn
HostSkip ==
  /\ IsHost
  /\ gameState.currentPhase = NIGHT_ACTIVE
  /\ localPlayer[1].initialRole # NIGHT_SEQUENCE[gameState.currentNightRoleIndex + 1]
  /\ \E randomIdx \in DOMAIN gameState.players :
       Commit(advanceNightPhase(gameState, randomIdx))
  /\ UNCHANGED <<localPlayer, dealPending, msgCount>>

\* the host participant confirms its turn: the Ready / Done button of
\* NightPhase (part_006 477, 514), drawn while it is the participant's turn
\* and hasActed is false.  NightPhase renders again, App does not.
ConfirmTurn ==
  /\ IsHost
  /\ gameState.currentPhase = NIGHT_ACTIVE
  /\ localPlayer[1].initialRole = NIGHT_SEQUENCE[gameState.currentNightRoleIndex + 1]
  /\ ~hasActed
  /\ gameState' = confirmTurn(gameState, hasActed).gameState
  /\ hasActed' = confirmTurn(gameState, hasActed).hasActed
  /\ UNCHANGED <<localPlayer, dealPending, introTimeouts, msgCount, roleTimer,
                 connectionsRef, conn, guest>>

(***************************************************************************)
(* The host's timers                                                       *)
(***************************************************************************)
\* one firing of the setInterval of the ROLE_REVEAL effect (App.tsx 442-453)
\* the countdown is sent when prev.timer is a multiple of 5 or below 5
RoleRevealTick ==
  /\ IsHost
  /\ gameState.currentPhase = ROLE_REVEAL
  /\ LET nextState ==
           IF gameState.timer <= 1
           THEN [gameState EXCEPT !.currentPhase = NIGHT_INTRO, !.timer = 0]
           ELSE [gameState EXCEPT !.timer = @ - 1]
     IN IF gameState.timer <= 1 \/ gameState.timer % 5 = 0 \/ gameState.timer < 5
        THEN Commit(nextState)
        ELSE /\ CommitWith(nextState, introTimeouts)
             /\ UNCHANGED <<connectionsRef, conn, guest>>
  /\ UNCHANGED <<localPlayer, dealPending, msgCount>>

\* the setTimeout of the NIGHT_INTRO effect fires (App.tsx 462-466): it
\* installs the gameState its closure captured
NightIntroTimeout ==
  \E snap \in introTimeouts :
    /\ WireRoom
    /\ gameState' = [snap EXCEPT !.currentPhase = NIGHT_ACTIVE,
                                 !.currentNightRoleIndex = 0]
    /\ introTimeouts' = introTimeouts \ {snap}
    /\ roleTimer' = initialTime(gameState')
    /\ hasActed' = stillActed(gameState')
    /\ conn' = broadcastState(conn, gameState')
    /\ UNCHANGED <<localPlayer, dealPending, msgCount, connectionsRef, guest>>

\* one firing of the setInterval of the role timer (NightPhase.tsx 113-122):
\* at 1 or less it calls onGodSpeechComplete, which is advanceNightPhase
RoleTimerTick ==
  /\ IsHost
  /\ gameState.currentPhase = NIGHT_ACTIVE
  /\ IF roleTimer <= 1
     THEN \E randomIdx \in DOMAIN gameState.players :
            Commit(advanceNightPhase(gameState, randomIdx))
     ELSE /\ roleTimer' = roleTimer - 1
          /\ UNCHANGED <<gameState, introTimeouts, hasActed, connectionsRef, conn, guest>>
  /\ UNCHANGED <<localPlayer, dealPending, msgCount>>

(***************************************************************************)
(* The button of the results screen                                        *)
(***************************************************************************)
\* "New Ritual" (App.tsx 870-876), drawn for the host in DAY_RESULTS:
\* window.location.reload().  The page starts again from its initial state;
\* its timers, its pending startGame and its connections go with the page,
\* a guest device keeps what it holds.  msgCount counts the messages of
\* the whole behaviour.
NewRitual ==
  /\ IsHost
  /\ gameState.currentPhase = DAY_RESULTS
  /\ gameState' = getInitialState
  /\ localPlayer' = None
  /\ dealPending' = {}
  /\ introTimeouts' = {}
  /\ roleTimer' = 0
  /\ hasActed' = FALSE
  /\ connectionsRef' = {}
  /\ conn' = [d \in NetIds |-> NoConn]
  /\ UNCHANGED <<msgCount, guest>>

Next ==
  \/ CreateRoom
  \/ RecvHello
  \/ RecvClaimSeat
  \/ RecvVote
  \/ RecvPhaseChange
  \/ StartGameClick
  \/ StartGameDeal
  \/ HostStartVoting
  \/ HostCastVote
  \/ HostRevealResults
  \/ HostSkip
  \/ ConfirmTurn
  \/ RoleRevealTick
  \/ NightIntroTimeout
  \/ RoleTimerTick

Spec == Init /\ [][Next]_vars

\* the session when every guest runs the application
NextApp ==
  \/ CreateRoom
  \/ GuestJoin
  \/ GuestClaimSeat
  \/ GuestCastVote
  \/ StartGameClick
  \/ StartGameDeal
  \/ HostStartVoting
  \/ HostCastVote
  \/ HostRevealResults
  \/ HostSkip
  \/ ConfirmTurn
  \/ RoleRevealTick
  \/ NightIntroTimeout
  \/ RoleTimerTick

SpecApp == Init /\ [][NextApp]_vars

\* the session of SpecApp with the button that follows a round
NextRound == NextApp \/ NewRitual

SpecRound == Init /\ [][NextRound]_vars

\* The session of SpecApp from the moment its table is full, with the
\* device of NetIds joining it as well.  The table is the smallest one:
\* the host in seat 1, a first guest in seat 2 and a second guest that has
\* joined and has no seat yet (the Begin button asks for players.length
\* only).  localPlayer is the host's record of the list; msgCount counts
\* the two HELLOs and the seat claim that made the table.
NetTable ==
  [getInitialState EXCEPT
     !.roomCode = "code",
     !.players = <<[id |-> HostId, seatNumber |-> 1, role |-> NoRole,
                    initialRole |-> NoRole, isHost |-> TRUE],
                   [JoinPlayer(GuestNames[1]) EXCEPT !.seatNumber = 2],
                   JoinPlayer(GuestNames[2])>>,
     !.settings.playerCount = MIN_PLAYER_COUNT]

InitNet ==
  /\ gameState = NetTable
  /\ localPlayer = Some(gameState.players[1])
  /\ dealPending = {}
  /\ introTimeouts = {}
  /\ msgCount = Len(gameState.players)
  /\ roleTimer = 0
  /\ hasActed = FALSE
  /\ connectionsRef = {}
  /\ conn = [d \in NetIds |-> NoConn]
  /\ guest = [d \in NetIds |-> NoGuest]

\* The two guests of the table are those of SpecApp; here they claim the
\* free seat, and the votes are the host's and the modelled device's.
NextNet ==
  \/ GuestClaimSeat
  \/ JoinRoom
  \/ HostReceive
  \/ GuestReceive
  \/ GuestClickSeat
  \/ GuestClickVote
  \/ ConnClose
  \/ StartGameClick
  \/ StartGameDeal
  \/ HostStartVoting
  \/ HostCastVote
  \/ HostRevealResults
  \/ HostSkip
  \/ ConfirmTurn
  \/ RoleRevealTick
  \/ NightIntroTimeout
  \/ RoleTimerTick

SpecNet == InitNet /\ [][NextNet]_vars

(***************************************************************************)
(* Vote resolution on its own: processVotingResults applied to the tables  *)
(* DAY_VOTING can show.  A table is VotePlayers participants, each with a  *)
(* current role (processVotingResults reads id and role only), and a votes *)
(* map in which each participant has voted for some id or not at all.      *)
(***************************************************************************)
VoteRoles == {"WEREWOLF", "MINION", "TANNER", "HUNTER", "VILLAGER"}

VoteIds == <<HostId>> \o SubSeq(GuestNames, 1, VotePlayers - 1)

\* ACTION_VOTE stores whatever targetId it carries: the targets are the
\* participants and one id that is not in the list
VoteTargets == Range(VoteIds) \cup {StrangerId}

VoteMaps ==
  UNION {[voters -> VoteTargets] : voters \in SUBSET Range(VoteIds)}

\* the hands a deal can leave: no role more often than balanceOrder has it
VoteHands ==
  {roles \in [DOMAIN VoteIds -> VoteRoles] :
     \A r \in VoteRoles :
       Cardinality({i \in DOMAIN roles : roles[i] = r})
         <= Cardinality({k \in DOMAIN balanceOrder : balanceOrder[k] = r})}

VoteTable(roles, votes) ==
  [getInitialState EXCEPT
     !.roomCode = "code",
     !.players = [i \in DOMAIN VoteIds |->
                    [id |-> VoteIds[i], seatNumber |-> i, role |-> roles[i],
                     initialRole |-> roles[i], isHost |-> (i = 1)]],
     !.centerCards = <<"VILLAGER", "VILLAGER", "VILLAGER">>,
     !.currentPhase = DAY_VOTING,
     !.currentNightRoleIndex = Len(NIGHT_SEQUENCE) - 1,
     !.settings.playerCount = VotePlayers,
     !.speakerId = HostId,
     !.votes = votes]

InitVote ==
  /\ gameState \in {VoteTable(roles, votes) :
                      roles \in VoteHands, votes \in VoteMaps}
  /\ localPlayer = Some(gameState.players[1])
  /\ dealPending = {}
  /\ introTimeouts = {}
  /\ msgCount = 0
  /\ roleTimer = 0
  /\ hasActed = FALSE
  /\ connectionsRef = {}
  /\ conn = [d \in NetIds |-> NoConn]
  /\ guest = [d \in NetIds |-> NoGuest]

NextVote == HostRevealResults

SpecVote == InitVote /\ [][NextVote]_vars

(***************************************************************************)
(* The night on its own: NIGHT_ACTIVE from index 0 on the tables a deal    *)
(* can leave, with the roles that swap cards in hand.                      *)
(***************************************************************************)
NightRoles == {"ROBBER", "TROUBLEMAKER", "DRUNK", "WEREWOLF", "VILLAGER"}

NightHands ==
  {roles \in [DOMAIN VoteIds -> NightRoles] :
     \A r \in NightRoles :
       Cardinality({i \in DOMAIN roles : roles[i] = r})
         <= Cardinality({k \in DOMAIN balanceOrder : balanceOrder[k] = r})}

NightTable(roles) ==
  [VoteTable(roles, <<>>) EXCEPT
     !.centerCards = <<"SEER", "TANNER", "INSOMNIAC">>,
     !.currentPhase = NIGHT_ACTIVE,
     !.currentNightRoleIndex = 0,
     !.speakerId = Absent]

InitNight ==
  /\ gameState \in {NightTable(roles) : roles \in NightHands}
  /\ localPlayer = Some(gameState.players[1])
  /\ dealPending = {}
  /\ introTimeouts = {}
  /\ msgCount = 0
  /\ roleTimer = initialTime(gameState)
  /\ hasActed = FALSE
  /\ connectionsRef = {}
  /\ conn = [d \in NetIds |-> NoConn]
  /\ guest = [d \in NetIds |-> NoGuest]

NextNight ==
  \/ HostSkip
  \/ ConfirmTurn
  \/ RoleTimerTick

SpecNight == InitNight /\ [][NextNight]_vars

\* the session with the host's timers running: a setInterval or setTimeout
\* that stays armed fires
SpecFair ==
  /\ Spec
  /\ WF_vars(RoleRevealTick)
  /\ WF_vars(NightIntroTimeout)
  /\ WF_vars(RoleTimerTick)

\* the same with guests that run the application
SpecAppFair ==
  /\ SpecApp
  /\ WF_vars(RoleRevealTick)
  /\ WF_vars(NightIntroTimeout)
  /\ WF_vars(RoleTimerTick)

(***************************************************************************)
(* Vocabulary of the properties                                            *)
(***************************************************************************)
PhaseIndex(phase) == CHOOSE i \in DOMAIN GamePhase : GamePhase[i] = phase

\* a step in which a message from a guest connection changes gameState
GuestStep == msgCount' # msgCount

\* the Reset of the specification: the host participant takes the session
\* from DAY_RESULTS back to LOBBY
HostReset ==
  /\ gameState.currentPhase = DAY_RESULTS
  /\ gameState'.currentPhase = LOBBY
  /\ ~GuestStep

\* a firing of one of the host's timers
TimerStep == RoleRevealTick \/ NightIntroTimeout \/ RoleTimerTick

HostFlags(gs) == {i \in DOMAIN gs.players : gs.players[i].isHost}

AllSeated(gs) ==
  \A seat \in 1..gs.settings.playerCount :
    \E i \in DOMAIN gs.players : gs.players[i].seatNumber = seat

\* how many times role r is held, in a hand or in the center
HeldCount(gs, r) ==
  Cardinality({i \in DOMAIN gs.players : gs.players[i].role = r})
    + Cardinality({i \in DOMAIN gs.centerCards : gs.centerCards[i] = r})

DeckCount(gs, r) ==
  Cardinality({i \in DOMAIN projectedDeck(gs) : projectedDeck(gs)[i] = r})

\* the roles held are exactly the cards of the deck
RolesConserved(gs) ==
  /\ Cardinality({i \in DOMAIN gs.players : gs.players[i].role # NoRole})
       + Len(gs.centerCards) = gs.settings.playerCount + 3
  /\ \A r \in Range(RoleType) : HeldCount(gs, r) = DeckCount(gs, r)

\* the role whose turn it is in NIGHT_ACTIVE (NightPhase.tsx 68)
currentNightRole(gs) == NIGHT_SEQUENCE[gs.currentNightRoleIndex + 1]

(***************************************************************************)
(* C1: every change of currentPhase goes to the immediate successor in the *)
(* order LOBBY .. GAME_OVER (GAME_REVIEW being optional); the only step     *)
(* backwards is the host's Reset from DAY_RESULTS to LOBBY.                *)
(***************************************************************************)
C1_PhaseOrder ==
  [][gameState'.currentPhase # gameState.currentPhase =>
       \/ PhaseIndex(gameState'.currentPhase) = PhaseIndex(gameState.currentPhase) + 1
       \/ gameState.currentPhase = DAY_RESULTS /\ gameState'.currentPhase = GAME_OVER
       \/ HostReset]_vars

(***************************************************************************)
(* C2: an ACTION_PHASE_CHANGE that arrives over a guest connection never   *)
(* changes the host's currentPhase.                                        *)
(***************************************************************************)
C2_GuestPhaseChangeIgnored ==
  [][RecvPhaseChange => gameState'.currentPhase = gameState.currentPhase]_vars

(***************************************************************************)
(* C3: after room creation exactly one participant has the host flag.      *)
(***************************************************************************)
C3_ExactlyOneHost ==
  localPlayer # None => Cardinality(HostFlags(gameState)) = 1

(***************************************************************************)
(* C4: no two participants have the same non-null seat number.             *)
(***************************************************************************)
C4_SeatsUnique ==
  \A i, j \in DOMAIN gameState.players :
    (i # j /\ gameState.players[i].seatNumber # NoSeat)
      => gameState.players[i].seatNumber # gameState.players[j].seatNumber

(***************************************************************************)
(* C5: every non-null seat number lies in 1..settings.playerCount.         *)
(***************************************************************************)
C5_SeatsInRange ==
  \A i \in DOMAIN gameState.players :
    gameState.players[i].seatNumber # NoSeat
      => gameState.players[i].seatNumber \in 1..gameState.settings.playerCount

(***************************************************************************)
(* C6: the deal leaves the roles held (hands plus center) equal to the     *)
(* deck, and every later step of the round keeps them so.                  *)
(***************************************************************************)
C6_RolesConserved ==
  [][((StartGameDeal \/ RolesConserved(gameState)) /\ ~HostReset)
       => RolesConserved(gameState')]_vars

(***************************************************************************)
(* C7: an initialRole assigned by the deal keeps its value in every later  *)
(* state until a Reset.  The participants of AllIds start with a null      *)
(* initialRole, so theirs is non-null only through the deal.               *)
(***************************************************************************)
C7_InitialRoleImmutable ==
  [][\A i \in DOMAIN gameState.players :
       (/\ gameState.players[i].id \in AllIds
        /\ gameState.players[i].initialRole # NoRole
        /\ ~HostReset)
         => \E j \in DOMAIN gameState'.players :
              /\ gameState'.players[j].id = gameState.players[i].id
              /\ gameState'.players[j].initialRole = gameState.players[i].initialRole]_vars

(***************************************************************************)
(* C8: start game takes effect only when every seat 1..playerCount is      *)
(* occupied; it then leaves every participant with initialRole = role and  *)
(* the countdown at its start value.                                       *)
(***************************************************************************)
C8_StartNeedsAllSeated ==
  [][StartGameDeal =>
       /\ AllSeated(gameState)
       /\ \A i \in DOMAIN gameState'.players :
            gameState'.players[i].initialRole = gameState'.players[i].role
       /\ gameState'.timer = 5]_vars

(***************************************************************************)
(* C9: from ROLE_REVEAL the host's timers lead to NIGHT_INTRO and from     *)
(* there to NIGHT_ACTIVE with the night index at 0, through no other       *)
(* phase.                                                                  *)
(***************************************************************************)
C9_RevealIntroActive ==
  [][(TimerStep /\ gameState'.currentPhase # gameState.currentPhase) =>
       /\ gameState.currentPhase = ROLE_REVEAL
            => gameState'.currentPhase = NIGHT_INTRO
       /\ gameState.currentPhase = NIGHT_INTRO
            => /\ gameState'.currentPhase = NIGHT_ACTIVE
               /\ gameState'.currentNightRoleIndex = 0]_vars

(***************************************************************************)
(* C10: in NIGHT_ACTIVE the role designated by the night index is the      *)
(* initialRole of at least one participant.                                *)
(***************************************************************************)
C10_NightRoleInHand ==
  gameState.currentPhase = NIGHT_ACTIVE =>
    \E i \in DOMAIN gameState.players :
      gameState.players[i].initialRole = currentNightRole(gameState)

(***************************************************************************)
(* Vocabulary of the night and of the vote                                 *)
(***************************************************************************)
\* the night sequence of the specification: NIGHT_SEQUENCE filtered to the
\* roles dealt to participants
dealtNightSequence(gs) ==
  FilterSeq(NIGHT_SEQUENCE,
            {gs.players[i].initialRole : i \in DOMAIN gs.players})

\* a step that opens a round: the deal, or the Reset of the specification
RoundStart == StartGameDeal \/ HostReset

(***************************************************************************)
(* C11: within one round currentNightRoleIndex never decreases from one    *)
(* host state to the next, and it never exceeds the length of the night    *)
(* sequence filtered to the roles dealt to participants.                   *)
(***************************************************************************)
C11_NightIndexForwardBounded ==
  [][/\ ~RoundStart =>
          gameState'.currentNightRoleIndex >= gameState.currentNightRoleIndex
     /\ gameState'.currentNightRoleIndex <= Len(dealtNightSequence(gameState'))]_vars

\* the participants whose turn it is: isMyTurn of NightPhase.tsx 74, taken
\* over the list
actorsOf(gs) ==
  {i \in DOMAIN gs.players : gs.players[i].initialRole = currentNightRole(gs)}

\* a firing of the role timer that only counts down: the host goes on
\* waiting for the countdown
CountdownWait == RoleTimerTick /\ roleTimer > 1

(***************************************************************************)
(* C12: in NIGHT_ACTIVE the host advances the index as soon as every       *)
(* participant whose initialRole is the current role is finished, without  *)
(* waiting for the countdown.  The host state records no finished mark     *)
(* (handleNightAction is empty), so the case the host state decides is     *)
(* the role nobody holds, whose actors are all finished from the start:    *)
(* the host never counts down on a role that has no actor.                 *)
(***************************************************************************)
C12_NoWaitWhenActorsDone ==
  [][CountdownWait => actorsOf(gameState) # {}]_vars

(***************************************************************************)
(* C13: from any NIGHT_ACTIVE state, with the host's timers running, the   *)
(* host eventually is in DAY_DISCUSSION with speakerId the id of a         *)
(* participant of the list, whatever the guests send or fail to send.      *)
(***************************************************************************)
C13_NightEndsInDiscussion ==
  (gameState.currentPhase = NIGHT_ACTIVE) ~>
    (/\ gameState.currentPhase = DAY_DISCUSSION
     /\ \E i \in DOMAIN gameState.players :
          gameState.players[i].id = gameState.speakerId)

\* votes received by target t
Tally(votes, t) == Cardinality({v \in DOMAIN votes : votes[v] = t})

\* the executed set of the specification: every target whose tally is the
\* highest tally, nobody when no vote was cast
ExecutedByTally(votes) ==
  {t \in Range(votes) : \A u \in Range(votes) : Tally(votes, u) <= Tally(votes, t)}

(***************************************************************************)
(* C14: vote resolution puts into deadPlayerIds exactly the targets whose  *)
(* tally equals the highest tally: every tied target and nobody else, and  *)
(* nobody when no vote was cast.                                           *)
(***************************************************************************)
C14_ExecutedAreTopTally ==
  [][HostRevealResults =>
       gameState'.gameResult[1].deadPlayerIds = ExecutedByTally(gameState.votes)]_vars

\* a tie between two targets has been resolved, the third participant lives
C14_Witness_Tie ==
  /\ gameState.gameResult # None
  /\ Cardinality(gameState.gameResult[1].deadPlayerIds) = 2
  /\ Len(gameState.players) > 2

\* the vote targets of the executed participants that hold the Hunter role
HunterTargets(gs) ==
  {gs.votes[gs.players[i].id] :
     i \in {j \in DOMAIN gs.players :
              /\ gs.players[j].id \in ExecutedByTally(gs.votes)
              /\ gs.players[j].role = "HUNTER"
              /\ gs.players[j].id \in DOMAIN gs.votes}}

(***************************************************************************)
(* C15: when a participant executed by the tally holds the Hunter role,    *)
(* the participant that Hunter voted for is in deadPlayerIds too, even     *)
(* with no vote received; the retaliation is single-level, so              *)
(* deadPlayerIds holds the targets of the tally and of the executed        *)
(* Hunters and nobody else.                                                *)
(***************************************************************************)
C15_HunterRetaliation ==
  [][HostRevealResults =>
       gameState'.gameResult[1].deadPlayerIds =
         ExecutedByTally(gameState.votes) \cup HunterTargets(gameState)]_vars

\* the participants a result record lists as dead
Executed(gs) ==
  {i \in DOMAIN gs.players : gs.players[i].id \in gs.gameResult[1].deadPlayerIds}

\* some executed participant currently holds role r
ExecutedHolds(gs, r) == \E i \in Executed(gs) : gs.players[i].role = r

(***************************************************************************)
(* C16: when an executed participant's current role is Tanner, the         *)
(* winners of the result are exactly [Tanner], whoever else was executed.  *)
(***************************************************************************)
C16_TannerOverride ==
  [][HostRevealResults =>
       (ExecutedHolds(gameState', "TANNER") =>
          gameState'.gameResult[1].winners = <<"TANNER">>)]_vars

\* a Tanner and a Werewolf have been executed by the same vote
C16_Witness_TannerAndWolf ==
  /\ gameState.gameResult # None
  /\ ExecutedHolds(gameState, "TANNER")
  /\ ExecutedHolds(gameState, "WEREWOLF")

\* some executed participant's current role is of the Werewolf team of the
\* catalog (ROLES[role].team)
ExecutedWerewolfTeam(gs) == \E i \in Executed(gs) : team[gs.players[i].role] = "WEREWOLF"

(***************************************************************************)
(* C17: when no executed participant's current role is Tanner and some     *)
(* executed participant's current role is of the Werewolf team of the role *)
(* catalog (Werewolf or Minion), the winners are exactly [Villager].       *)
(***************************************************************************)
C17_WerewolfTeamExecuted ==
  [][HostRevealResults =>
       ((~ExecutedHolds(gameState', "TANNER") /\ ExecutedWerewolfTeam(gameState')) =>
          gameState'.gameResult[1].winners = <<"VILLAGER">>)]_vars

\* no participant currently holds the Werewolf role
NoWerewolfHeld(gs) == \A i \in DOMAIN gs.players : gs.players[i].role # "WEREWOLF"

(***************************************************************************)
(* C18: when no Tanner and no member of the Werewolf team was executed,    *)
(* the winners are [Villager] if and only if no participant holds the      *)
(* Werewolf role and deadPlayerIds is empty; otherwise they are            *)
(* [Werewolf].                                                             *)
(***************************************************************************)
C18_NoThreatOrSurvived ==
  [][HostRevealResults =>
       ((~ExecutedHolds(gameState', "TANNER") /\ ~ExecutedWerewolfTeam(gameState')) =>
          gameState'.gameResult[1].winners =
            IF NoWerewolfHeld(gameState') /\ gameState'.gameResult[1].deadPlayerIds = {}
            THEN <<"VILLAGER">>
            ELSE <<"WEREWOLF">>)]_vars

\* every participant of the list has an entry in the votes map
AllVoted(gs) ==
  /\ gs.players # <<>>
  /\ \A i \in DOMAIN gs.players : gs.players[i].id \in DOMAIN gs.votes

(***************************************************************************)
(* C19: in DAY_VOTING, once every participant has an entry in the votes    *)
(* map the host moves to DAY_RESULTS with the game result computed,        *)
(* without any action of the host participant (the host's buttons carry no *)
(* fairness: only the timers are bound to fire).                           *)
(***************************************************************************)
C19_AutoResolveWhenAllVoted ==
  (gameState.currentPhase = DAY_VOTING /\ AllVoted(gameState)) ~>
    (gameState.currentPhase = DAY_RESULTS /\ gameState.gameResult # None)

(***************************************************************************)
(* C20: gameResult is populated only by vote resolution: it is absent in   *)
(* every host state whose phase comes before DAY_RESULTS, and present in   *)
(* every host state whose phase is DAY_RESULTS.                            *)
(***************************************************************************)
C20_ResultOnlyFromResolution ==
  /\ PhaseIndex(gameState.currentPhase) < PhaseIndex(DAY_RESULTS) =>
       gameState.gameResult = None
  /\ gameState.currentPhase = DAY_RESULTS => gameState.gameResult # None

(***************************************************************************)
(* Vocabulary of the message handlers                                      *)
(***************************************************************************)
\* the state the host has after handling ACTION_VOTE of voter v for t
AfterVote(gs, v, t) ==
  handleHostMessage(gs, [type |-> "ACTION_VOTE", voterId |-> v, targetId |-> t])

(***************************************************************************)
(* C21: a vote of voter v for target t accepted in DAY_VOTING results in   *)
(* votes[v] = t, replacing any earlier vote of v, and leaves every other   *)
(* entry of the votes map and every other field of gameState unchanged.    *)
(***************************************************************************)
C21_VoteUpsertFrame ==
  gameState.currentPhase = DAY_VOTING =>
    \A v \in AllIds, t \in AllIds :
      LET after == AfterVote(gameState, v, t)
      IN /\ DOMAIN after.votes = DOMAIN gameState.votes \cup {v}
         /\ after.votes[v] = t
         /\ \A u \in DOMAIN gameState.votes \ {v} : after.votes[u] = gameState.votes[u]
         /\ [after EXCEPT !.votes = gameState.votes] = gameState

\* votes have been accepted in DAY_VOTING: the next one finds entries to
\* replace and entries to keep
C21_Witness_VotesCast ==
  /\ gameState.currentPhase = DAY_VOTING
  /\ Cardinality(DOMAIN gameState.votes) >= 2

(***************************************************************************)
(* C22: a vote message the host receives while the phase is not DAY_VOTING *)
(* is ignored: gameState, the votes map in particular, is unchanged.       *)
(***************************************************************************)
C22_VoteOutsideVotingIgnored ==
  [][(RecvVote /\ gameState.currentPhase # DAY_VOTING) => gameState' = gameState]_vars

\* the message claimSeat sends
ClaimMsg(playerId, seatNumber) ==
  [type |-> "ACTION_CLAIM_SEAT", playerId |-> playerId, seatNumber |-> seatNumber]

\* the seats held by some participant
TakenSeats(gs) ==
  {gs.players[i].seatNumber : i \in DOMAIN gs.players} \ {NoSeat}

(***************************************************************************)
(* C23: a seat claim for a seat number already held by some participant is *)
(* ignored: gameState is unchanged (the claimant keeps its seat or null)   *)
(* and nothing is broadcast.                                               *)
(***************************************************************************)
C23_TakenSeatClaimIgnored ==
  \A playerId \in AllIds, seatNumber \in TakenSeats(gameState) :
    /\ handleHostMessage(gameState, ClaimMsg(playerId, seatNumber)) = gameState
    /\ ~shouldBroadcast(gameState, ClaimMsg(playerId, seatNumber))

\* a guest holds a seat and another participant of the list has none: the
\* one without can claim the seat that is held
C23_Witness_SeatHeld ==
  /\ \E i \in DOMAIN gameState.players :
       gameState.players[i].id \in GuestIds /\ gameState.players[i].seatNumber # NoSeat
  /\ \E j \in DOMAIN gameState.players : gameState.players[j].seatNumber = NoSeat

(***************************************************************************)
(* C24: in every host state the votes map has at most as many entries as   *)
(* there are participants in the list, whatever voterId the vote messages  *)
(* carry.                                                                  *)
(***************************************************************************)
C24_VotesAtMostParticipants ==
  Cardinality(DOMAIN gameState.votes) <= Len(gameState.players)

(***************************************************************************)
(* C25: whenever the host enters DAY_VOTING the votes map is empty in the  *)
(* state entered: no vote accepted earlier is counted.                     *)
(***************************************************************************)
C25_VotesEmptyOnEnteringVoting ==
  [][(gameState.currentPhase # DAY_VOTING /\ gameState'.currentPhase = DAY_VOTING) =>
       gameState'.votes = <<>>]_vars

(***************************************************************************)
(* Vocabulary of the night actions                                         *)
(***************************************************************************)
\* the state with the current roles of participants i and j exchanged
SwapRoles(gs, i, j) ==
  [gs EXCEPT !.players[i].role = gs.players[j].role,
             !.players[j].role = gs.players[i].role]

\* the state with the role of participant i and center card c exchanged
SwapWithCenter(gs, i, c) ==
  [gs EXCEPT !.players[i].role = gs.centerCards[c],
             !.centerCards[c] = gs.players[i].role]

\* it is the turn of role r
TurnOf(r) ==
  gameState.currentPhase = NIGHT_ACTIVE /\ currentNightRole(gameState) = r

(***************************************************************************)
(* C26: a Robber swap by an actor whose initialRole is Robber, on a target *)
(* other than the actor, exchanges the role of actor and target in the     *)
(* host state and leaves every other role, every initialRole and the       *)
(* center cards unchanged.                                                 *)
(***************************************************************************)
C26_RobberSwap ==
  TurnOf("ROBBER") =>
    \A a \in actorsOf(gameState) :
      \A t \in DOMAIN gameState.players \ {a} :
        handleNightAction(gameState, "ROBBER_SWAP", <<gameState.players[t].id>>)
          = SwapRoles(gameState, a, t)

(***************************************************************************)
(* C27: a Troublemaker swap by an actor whose initialRole is Troublemaker  *)
(* on two distinct targets, neither the actor, exchanges the role of the   *)
(* two targets and leaves everything else unchanged; with equal targets or *)
(* the actor as a target the state is unchanged.                           *)
(***************************************************************************)
C27_TroublemakerSwap ==
  TurnOf("TROUBLEMAKER") =>
    \A a \in actorsOf(gameState), t1 \in DOMAIN gameState.players,
       t2 \in DOMAIN gameState.players :
      handleNightAction(gameState, "TROUBLEMAKER_SWAP",
                        <<gameState.players[t1].id, gameState.players[t2].id>>)
        = IF t1 # t2 /\ t1 # a /\ t2 # a
          THEN SwapRoles(gameState, t1, t2)
          ELSE gameState

(***************************************************************************)
(* C28: a Drunk swap by an actor whose initialRole is Drunk on center      *)
(* index i exchanges the actor's role with center card i and leaves the    *)
(* other center cards, the other roles and the number of center cards      *)
(* unchanged.                                                              *)
(***************************************************************************)
C28_DrunkSwap ==
  TurnOf("DRUNK") =>
    \A a \in actorsOf(gameState), c \in DOMAIN gameState.centerCards :
      handleNightAction(gameState, "DRUNK_SWAP", <<c - 1>>)
        = SwapWithCenter(gameState, a, c)

HelloMsg(p) == [type |-> "HELLO", player |-> p]

\* the records a HELLO may carry, under every id including the host's
HelloInputs ==
  {JoinPlayer(id) : id \in AllIds \cup {StrangerId}}
    \cup {FilledPlayer(id) : id \in AllIds \cup {StrangerId}}

UniqueIds(players) ==
  \A i, j \in DOMAIN players : players[i].id = players[j].id => i = j

C30_HelloAppendsOnceAndSyncs ==
  /\ UniqueIds(gameState.players)
  /\ \A p \in HelloInputs :
       LET after == handleHostMessage(gameState, HelloMsg(p))
           sync == helloSync(gameState, HelloMsg(p), TRUE)
           n == Len(gameState.players)
       IN /\ IndexOfId(gameState.players, p.id) = 0 =>
               /\ Len(after.players) = n + 1
               /\ after.players[n + 1] = p
               /\ SubSeq(after.players, 1, n) = gameState.players
          /\ IndexOfId(gameState.players, p.id) # 0 => after.players = gameState.players
          /\ [after EXCEPT !.players = gameState.players] = gameState
          /\ UniqueIds(after.players)
          /\ sync # None
          /\ sync[1].type = "SYNC_STATE"
          /\ \E i \in DOMAIN sync[1].state.players : sync[1].state.players[i].id = p.id

\* a guest has joined, and another has not yet: a HELLO of either kind can
\* arrive
C30_Witness_Joined ==
  /\ \E i \in DOMAIN gameState.players : gameState.players[i].id \in GuestIds
  /\ \E id \in GuestIds : IndexOfId(gameState.players, id) = 0

(***************************************************************************)
(* C35: for every player count n in 3..10 the deck has length n+3 and is   *)
(* the first n+3 entries of the template list; the deck depends on the     *)
(* count only, so the same count always gives the same deck.               *)
(***************************************************************************)
\* the gameState with n as its player count
WithCount(gs, n) == [gs EXCEPT !.settings.playerCount = n]

C35_DeckIsTemplatePrefix ==
  \A n \in MIN_PLAYER_COUNT..MAX_PLAYER_COUNT :
    LET deck == projectedDeck(WithCount(gameState, n))
    IN /\ Len(deck) = n + 3
       /\ \A i \in 1..(n + 3) : deck[i] = balanceOrder[i]
       /\ deck = projectedDeck(WithCount(getInitialState, n))

\* a deck has been dealt: the hands and the center hold count+3 cards
C35_Witness_Dealt ==
  /\ gameState.currentPhase = ROLE_REVEAL
  /\ Len(gameState.players) = gameState.settings.playerCount
  /\ Len(gameState.centerCards) = 3
  /\ \A i \in DOMAIN gameState.players : gameState.players[i].role # NoRole

(***************************************************************************)
(* C40: at vote resolution every id of the result's deadPlayerIds is the   *)
(* id of a participant of the host's list, whatever targetId the accepted  *)
(* vote messages carried.                                                  *)
(***************************************************************************)
C40_DeadAreParticipants ==
  [][HostRevealResults =>
       \A pid \in gameState'.gameResult[1].deadPlayerIds :
         IndexOfId(gameState'.players, pid) > 0]_vars

(***************************************************************************)
(* C39: the NightIntro pause timer, when it fires, moves the host to       *)
(* NIGHT_ACTIVE only if the host is still in NIGHT_INTRO; if the phase was *)
(* changed in the meantime the firing leaves the phase and the night-order *)
(* index unchanged.                                                        *)
(***************************************************************************)
C39_IntroTimeoutOnlyInIntro ==
  [][NightIntroTimeout =>
       IF gameState.currentPhase = NIGHT_INTRO
       THEN gameState'.currentPhase = NIGHT_ACTIVE
       ELSE /\ gameState'.currentPhase = gameState.currentPhase
            /\ gameState'.currentNightRoleIndex = gameState.currentNightRoleIndex]_vars

(***************************************************************************)
(* Vocabulary of the claims about the connections                          *)
(***************************************************************************)
\* the device has run joinRoom
Joined(d) == guest[d].localPlayer # None

\* nothing is in flight on the connection, either way
Quiet(d) == conn[d].toHost = <<>> /\ conn[d].toGuest = <<>>

\* the seat the host's list records for the device: none when the list
\* does not hold its id
HostSeat(d) ==
  IF IndexOfId(gameState.players, d) = 0 THEN NoSeat
  ELSE gameState.players[IndexOfId(gameState.players, d)].seatNumber

\* the device's replica is the host's state and its own seat the recorded one
Converged(d) ==
  /\ guest[d].gameState = gameState
  /\ guest[d].localPlayer[1].seatNumber = HostSeat(d)

(***************************************************************************)
(* C31: on a channel that delivers in order, once the host state has       *)
(* stopped changing every connected guest eventually holds a replica equal *)
(* to the host's state and a local seat equal to the seat the host records *)
(* for it, also after an optimistic seat the host rejected: when the       *)
(* connection is open and nothing is in flight on it, the guest has        *)
(* converged.                                                              *)
(***************************************************************************)
C31_QuietConnectionConverged ==
  \A d \in NetIds : (conn[d].open /\ Joined(d) /\ Quiet(d)) => Converged(d)

(***************************************************************************)
(* C37: every step that changes the host's state sends, in that step, a    *)
(* SYNC_STATE that carries exactly the new state on every open connection  *)
(* of connectionsRef, behind what was already in flight; so the last       *)
(* snapshot sent on an open connection is the host's current state.        *)
(***************************************************************************)
\* the connections broadcastState writes to
OpenConns == {d \in connectionsRef : conn[d].open}

\* the last snapshot sent on the connection: the newest in flight, or the
\* one the guest received last
LastSent(d) ==
  IF conn[d].toGuest # <<>>
  THEN conn[d].toGuest[Len(conn[d].toGuest)].state
  ELSE guest[d].gameState

\* the host has sent a snapshot on the connection
SentTo(d) == conn[d].toGuest # <<>> \/ guest[d].gameState # getInitialState

C37_ChangeIsBroadcast ==
  [][/\ gameState' # gameState =>
          \A d \in OpenConns :
            /\ conn'[d].open
            /\ Len(conn'[d].toGuest) > Len(conn[d].toGuest)
            /\ SubSeq(conn'[d].toGuest, 1, Len(conn[d].toGuest)) = conn[d].toGuest
            /\ conn'[d].toGuest[Len(conn'[d].toGuest)] = SyncState(gameState')
     /\ \A d \in NetIds :
          (d \in connectionsRef' /\ conn'[d].open /\ SentTo(d)')
            => LastSent(d)' = gameState']_vars

\* the results are on the host's screen and their snapshot is in flight to
\* the guest
C37_Witness_ResultsInFlight ==
  \E d \in OpenConns :
    /\ gameState.currentPhase = DAY_RESULTS
    /\ conn[d].toGuest # <<>>
    /\ LastSent(d) = gameState
    /\ guest[d].gameState.currentPhase = DAY_VOTING

(***************************************************************************)
(* C38: a guest's replica changes only when the guest takes a SYNC_STATE   *)
(* off its connection, and then it becomes the state the message carries,  *)
(* whole; every SYNC_STATE put on a connection carries the state the host  *)
(* holds before or after that step, so the replica is the initial state or *)
(* a state the host held; claimSeat and castVote leave the replica alone.  *)
(***************************************************************************)
C38_ReplicaOnlyFromSync ==
  [][\A d \in NetIds :
       /\ guest'[d].gameState # guest[d].gameState =>
            /\ conn[d].toGuest # <<>>
            /\ conn[d].toGuest[1].type = "SYNC_STATE"
            /\ guest'[d].gameState = conn[d].toGuest[1].state
            /\ conn'[d].toGuest = Tail(conn[d].toGuest)
       /\ \A k \in DOMAIN conn'[d].toGuest :
            \/ \E j \in DOMAIN conn[d].toGuest :
                 conn'[d].toGuest[k] = conn[d].toGuest[j]
            \/ conn'[d].toGuest[k] \in {SyncState(gameState), SyncState(gameState')}
       /\ (GuestClickSeat \/ GuestClickVote) =>
            guest'[d].gameState = guest[d].gameState]_vars

\* the guest has voted from a replica of the voting phase that is no longer
\* the host's state; the vote is in flight
C38_Witness_VotedFromReplica ==
  \E d \in NetIds :
    /\ guest[d].gameState.currentPhase = DAY_VOTING
    /\ guest[d].gameState # gameState
    /\ conn[d].toHost # <<>>
    /\ conn[d].toHost[1].type = "ACTION_VOTE"

(***************************************************************************)
(* C33: a guest that receives a SYNC_STATE whose participant list lacks    *)
(* its own id, after an earlier one held it, ends its session locally: it  *)
(* has no local player any more.                                           *)
(***************************************************************************)
\* the device's replica lists the device
InReplica(g, d) == IndexOfId(g.gameState.players, d) > 0

C33_RemovedGuestEndsSession ==
  [][\A d \in NetIds :
       (InReplica(guest[d], d) /\ ~InReplica(guest'[d], d))
         => guest'[d].localPlayer = None]_vars

(***************************************************************************)
(* C32: when a guest's connection closes the host removes the participant  *)
(* and its vote entry in that step and broadcasts; afterwards the          *)
(* participant is in no actor set.                                         *)
(***************************************************************************)
C32_CloseRemovesParticipant ==
  [][ConnClose =>
       \A d \in NetIds :
         (conn[d].open /\ ~conn'[d].open) =>
           /\ IndexOfId(gameState'.players, d) = 0
           /\ d \notin DOMAIN gameState'.votes]_vars

(***************************************************************************)
(* C36: every mutation of the host's state is computed from the state the  *)
(* host holds when it is applied, so a message accepted while a timer, a   *)
(* deal or a vote resolution is pending is still reflected afterwards: the *)
(* deal, a timer and the vote resolution keep every participant the host   *)
(* listed just before, with its seat.                                      *)
(***************************************************************************)
\* the participant is in the list with the same seat
Listed(players, p) ==
  \E j \in DOMAIN players :
    players[j].id = p.id /\ players[j].seatNumber = p.seatNumber

C36_PendingStepKeepsAccepted ==
  [][(StartGameDeal \/ TimerStep \/ HostRevealResults) =>
       \A i \in DOMAIN gameState.players :
         Listed(gameState'.players, gameState.players[i])]_vars

(***************************************************************************)
(* C34: Reset by the host in DayResults returns the session to Lobby with  *)
(* votes, center cards, log, result and the finished set empty and every   *)
(* role null, and the live participants keep their places: each is still   *)
(* listed with its id and seat.                                            *)
(***************************************************************************)
C34_ResetKeepsTable ==
  [][NewRitual =>
       /\ gameState'.currentPhase = LOBBY
       /\ gameState'.votes = <<>>
       /\ gameState'.centerCards = <<>>
       /\ gameState'.log = <<>>
       /\ gameState'.gameResult = None
       /\ \A j \in DOMAIN gameState'.players :
            gameState'.players[j].role = NoRole
       /\ \A i \in DOMAIN gameState.players :
            Listed(gameState'.players, gameState.players[i])]_vars

====
